---- MODULE Spec2Model ----
(***************************************************************************)
(* The windowed statistics aggregator of nginx2es (nginx2es/stat.py): the  *)
(* ingesting thread calls Stat.hit(), the worker thread runs Stat.run().   *)
(*                                                                         *)
(* Python dicts are insertion ordered; a dict is modelled as a sequence of *)
(* <<key, value>> pairs.  Wall-clock time is an integer number of seconds. *)
(* Durations are integers in units of 1e-4 s (0.001 s = 10).               *)
(*                                                                         *)
(* Spec is the aggregator with its two threads.  SpecMain is the startup   *)
(* code main() of nginx2es/cli.py over every combination of the options.   *)
(* SpecBins and SpecMetrics apply Stat.log10_bins and Stat.metrics to      *)
(* every argument of a bounded set.                                        *)
(***************************************************************************)
EXTENDS Integers, Sequences, FiniteSets, TLC

\* ---------------------------------------------------------------- bounds
\* Stat(interval=..., delay=...): the configured window width and delay.
Interval == 2
Delay == 1
\* the wall clock runs from 0 to MaxTime
MaxTime == 5
\* record timestamps are drawn from 1..MaxTs
MaxTs == 2
\* number of hit() calls in a run
MaxHits == 3

\* len(self.last_sent) > 100: the capacity of the recency deque.  The source
\* keeps 100 ids; the model keeps LastSentMax so that an eviction happens
\* within MaxHits windows.
LastSentMax == 1

None == "None"

\* stat = None
NoStat == <<>>

\* a local variable that was never assigned
Unbound == "Unbound"

\* Stat.__init__(..., delay=5.): the delay when the caller passes none
StatDefaultDelay == 5

\* ------------------------------------------------------------ dict helpers
Keys(d) == {d[i][1] : i \in DOMAIN d}

Has(d, k) == k \in Keys(d)

IndexOf(d, k) == CHOOSE i \in DOMAIN d : d[i][1] = k

Get(d, k) == d[IndexOf(d, k)][2]

Put(d, k, v) ==
    IF Has(d, k) THEN [d EXCEPT ![IndexOf(d, k)] = <<k, v>>]
    ELSE Append(d, <<k, v>>)

\* ---------------------------------------------------------------- records
\* Stat.columns: the fields hit() keeps of a record
columns_set ==
    {"host", "request_path_1", "request_path_2", "upstream_cache_status",
     "status", "request_time", "upstream_response_time", "bytes_sent"}

\* A parsed record.  upstream_response_time is the list of upstream times,
\* <<>> when the request had none.
Rec(ts, st) ==
    [timestamp |-> ts,
     remote_addr |-> "10.0.0.1",
     host |-> "web",
     request_path_1 |-> IF st = 404 THEN "12345" ELSE "api",
     request_path_2 |-> None,
     upstream_cache_status |-> IF st = 200 THEN "HIT" ELSE None,
     status |-> st,
     request_time |-> IF st = 404 THEN 0 ELSE 20,
     upstream_response_time |-> IF st = 200 THEN <<10, 15>> ELSE <<>>,
     bytes_sent |-> 100]

\* the records of the first window come with two non-zero statuses, the
\* later ones with one
Statuses(ts) == IF ts < Interval THEN {0, 200, 404} ELSE {0, 200}

Records == UNION {{Rec(ts, st) : st \in Statuses(ts)} : ts \in 1..MaxTs}

\* d = {k: v for k, v in row.items() if k in self.columns_set}
Project(row) == [k \in (DOMAIN row) \cap columns_set |-> row[k]]

\* variant of Timestamp that rounds up to the next multiple
TimestampBad(ts) == ts - (ts % Interval) + Interval

\* Stat.timestamp: int(ts - ts % self.interval)
Timestamp(ts) == ts - (ts % Interval)

\* ---------------------------------------------------------------- metrics
UuidSegments == {"3fa85f64-5717-4562-b3fc-2c963f66afa6"}

IdSegments == {"12345"}

\* fillna('#'), replace(uuid_regex, '<uuid>'), replace(id_regex, '<id>')
NormPath(p) ==
    IF p = None THEN "#"
    ELSE IF p \in UuidSegments THEN "<uuid>"
    ELSE IF p \in IdSegments THEN "<id>"
    ELSE p

\* upstream_cache_status.fillna('NONE')
NormCache(c) == IF c = None THEN "NONE" ELSE c

\* lambda x: x[-1] if isinstance(x, list) else x
LastUpstream(u) == IF u = <<>> THEN None ELSE u[Len(u)]

\* ceil(10^(k/10)) and floor(10^(k/10)) for k = 0..50, at index k+1
Ceil10 ==
    <<1, 2, 2, 2, 3, 4, 4, 6, 7, 8, 10, 13, 16, 20, 26, 32, 40, 51, 64, 80,
      100, 126, 159, 200, 252, 317, 399, 502, 631, 795, 1000, 1259, 1585,
      1996, 2512, 3163, 3982, 5012, 6310, 7944, 10000, 12590, 15849, 19953,
      25119, 31623, 39811, 50119, 63096, 79433, 100000>>

Floor10 ==
    <<1, 1, 1, 1, 2, 3, 3, 5, 6, 7, 10, 12, 15, 19, 25, 31, 39, 50, 63, 79,
      100, 125, 158, 199, 251, 316, 398, 501, 630, 794, 1000, 1258, 1584,
      1995, 2511, 3162, 3981, 5011, 6309, 7943, 10000, 12589, 15848, 19952,
      25118, 31622, 39810, 50118, 63095, 79432, 100000>>

\* floor(10 * log10(n)) for an integer n in 1..100000
FloorLog(n) ==
    CHOOSE k \in 0..50 :
        /\ Ceil10[k + 1] <= n
        /\ (k = 50 \/ Ceil10[k + 2] > n)

\* (np.log10(series.replace(0, np.nan)) * 10.).fillna(-31).astype(np.int)
\* for a duration x in units of 1e-4 s: astype truncates toward zero.
Pow10(x) ==
    IF x = 0 THEN -31
    ELSE LET fl == FloorLog(x)
             exact == fl % 10 = 0 /\ Ceil10[fl + 1] = x
         IN IF fl >= 40 \/ exact THEN fl - 40 ELSE fl + 1 - 40

\* '%d' % (10. ** (pow10 / 10) * 1000)
BinLabel(p) == IF p + 30 < 0 THEN 0 ELSE Floor10[p + 30 + 1]

log10_bins(x) == BinLabel(Pow10(x))

RECURSIVE SumInts(_)
SumInts(s) == IF s = <<>> THEN 0 ELSE Head(s) + SumInts(Tail(s))

\* the values of column col for the rows selected by sel, 0 for the others
Column(rows, sel, col) ==
    [i \in DOMAIN rows |-> IF sel[i] THEN col[i] ELSE 0]

Range(s) == {s[i] : i \in DOMAIN s}

\* groupby([host, request_path_1, request_path_2, status,
\*          upstream_cache_status, request_time_interval])
RequestDims(r) ==
    <<r.host, NormPath(r.request_path_1), NormPath(r.request_path_2),
      r.status, NormCache(r.upstream_cache_status),
      log10_bins(r.request_time)>>

\* groupby([host, request_path_1, request_path_2, status,
\*          upstream_response_time_interval])
UpstreamDims(r) ==
    <<r.host, NormPath(r.request_path_1), NormPath(r.request_path_2),
      r.status, log10_bins(LastUpstream(r.upstream_response_time))>>

\* groupby([host, request_path_1, request_path_2, status])
BytesDims(r) ==
    <<r.host, NormPath(r.request_path_1), NormPath(r.request_path_2),
      r.status>>

HasUpstream(r) == r.upstream_response_time # <<>>

One(r) == 1

Metric(n, a, d, v) == [name |-> n, agg |-> a, dims |-> d, value |-> v]

\* variant of RequestTimeMetrics that loses the groups of zero durations
RequestTimeMetricsBad(rows) ==
    LET groups == {RequestDims(r) : r \in {q \in Range(rows) : q.request_time # 0}}
    IN  {Metric("request_time", "sum", g,
                SumInts(Column(rows,
                    [i \in DOMAIN rows |-> RequestDims(rows[i]) = g],
                    [i \in DOMAIN rows |-> rows[i].request_time]))) : g \in groups}
        \cup
        {Metric("request_time", "count", g,
                SumInts(Column(rows,
                    [i \in DOMAIN rows |-> RequestDims(rows[i]) = g],
                    [i \in DOMAIN rows |-> One(rows[i])]))) : g \in groups}

\* request time sum / count
RequestTimeMetrics(rows) ==
    LET groups == {RequestDims(r) : r \in Range(rows)}
    IN  {Metric("request_time", "sum", g,
                SumInts(Column(rows,
                    [i \in DOMAIN rows |-> RequestDims(rows[i]) = g],
                    [i \in DOMAIN rows |-> rows[i].request_time]))) : g \in groups}
        \cup
        {Metric("request_time", "count", g,
                SumInts(Column(rows,
                    [i \in DOMAIN rows |-> RequestDims(rows[i]) = g],
                    [i \in DOMAIN rows |-> One(rows[i])]))) : g \in groups}

\* upstream response time sum / count
UpstreamMetrics(rows) ==
    LET ups == SelectSeq(rows, HasUpstream)
        groups == {UpstreamDims(r) : r \in Range(ups)}
    IN  {Metric("upstream_response_time", "sum", g,
                SumInts(Column(ups,
                    [i \in DOMAIN ups |-> UpstreamDims(ups[i]) = g],
                    [i \in DOMAIN ups |-> LastUpstream(ups[i].upstream_response_time)])))
             : g \in groups}
        \cup
        {Metric("upstream_response_time", "count", g,
                SumInts(Column(ups,
                    [i \in DOMAIN ups |-> UpstreamDims(ups[i]) = g],
                    [i \in DOMAIN ups |-> One(ups[i])]))) : g \in groups}

\* sent bytes
BytesMetrics(rows) ==
    LET groups == {BytesDims(r) : r \in Range(rows)}
    IN  {Metric("bytes_sent", "", g,
                SumInts(Column(rows,
                    [i \in DOMAIN rows |-> BytesDims(rows[i]) = g],
                    [i \in DOMAIN rows |-> rows[i].bytes_sent]))) : g \in groups}

\* Stat.metrics: the metrics of one window; nothing for an empty window
metrics(rows) ==
    IF rows = <<>> THEN {}
    ELSE RequestTimeMetrics(rows) \cup UpstreamMetrics(rows) \cup BytesMetrics(rows)

RECURSIVE SumSet(_)
SumSet(S) ==
    IF S = {} THEN 0
    ELSE LET m == CHOOSE x \in S : TRUE IN m.value + SumSet(S \ {m})

\* the request_time count metrics of one emission
CountMetrics(ms) == {m \in ms : m.name = "request_time" /\ m.agg = "count"}

\* the sum of the request_time count metrics of one emission
CountSum(ms) == SumSet(CountMetrics(ms))

\* ------------------------------------------------------------------ state
VARIABLES
    now,           \* time(): the wall clock
    reachable,     \* whether the carbon collector accepts connections
    buffers,       \* self.buffers: bucket id -> rows
    last_seen,     \* self.last_seen: bucket id -> time of the last hit()
    last_sent,     \* self.last_sent: deque of the bucket ids sent last
    eof,           \* self.eof: the stop event
    lock,          \* self.lock: "free", "hit" (ingesting thread), "run" (worker)
    output,        \* self.output: "none", "open", "dead" (peer gone), "closed"
    hpc,           \* position of the ingesting thread in hit()
    hrow,          \* hit(): row, ts and d of the call in progress
    hits,          \* number of hit() calls made
    wpc,           \* position of the worker thread in run()
    current_time,  \* get_ready_buffers(): current_time
    ready,         \* get_ready_buffers(): ready
    mode,          \* process(): "scan" (buffers is ready) or "final" (self.buffers)
    it,            \* process(): position of the for loop in buffers.items()
    itlen,         \* process(): size of the dict when the iteration started
    tries,         \* process(): send_metrics calls made for the current window
    conns,         \* process(): connect calls made for the current window
    event,         \* what the last step of process() logged or wrote
    sends,         \* history: bucket id -> process() passes that called send_metrics
    evictions,     \* history: bucket id -> times popleft() dropped it from last_sent
    accepted,      \* history: bucket id -> rows hit() appended to the active window
    popped,        \* history: bucket id -> accepted[] of the window a scan popped
    handed,        \* history: bucket ids of this process() pass given to send_metrics
    logged,        \* history: bucket ids of this process() pass logged as late
    passKeys,      \* history: bucket ids of the dict process() was called with
    mpc,           \* main(): position
    args,          \* main(): the parsed command line and the kind of the input
    es_up,         \* whether the indexing backend accepts connections
    carbon_up,     \* whether the carbon collector accepts connect() at startup
    es_kwargs,     \* main(): es_kwargs
    carbon_prefix, \* main(): the local carbon_prefix
    stat_kwargs,   \* main(): stat_kwargs
    stat,          \* main(): stat
    nginx2es,      \* main(): the arguments Nginx2ES was constructed with
    run,           \* main(): run
    source,        \* main(): what run() was called with
    exit_status,   \* the exit status of the process
    calls,         \* main(): the calls made to the collaborators, in order
    series,        \* log10_bins(): the durations given
    binned,        \* log10_bins(): the labels returned
    df,            \* metrics(): the rows given
    yielded        \* metrics(): the metrics yielded

\* the state of the Stat object and of its two threads
statVars ==
    <<now, reachable, buffers, last_seen, last_sent, eof, lock, output, hpc,
      hrow, hits, wpc, current_time, ready, mode, it, itlen, tries, conns,
      event, sends, evictions, accepted, popped, handed, logged, passKeys>>

\* the state of main()
mainVars ==
    <<mpc, args, es_up, carbon_up, es_kwargs, carbon_prefix, stat_kwargs,
      stat, nginx2es, run, source, exit_status, calls>>

\* the argument and the result of a call of log10_bins() or metrics()
fnVars == <<series, binned, df, yielded>>

vars == <<statVars, mainVars, fnVars>>

clockVars == <<now, reachable>>

hitVars == <<hpc, hrow, hits>>

\* the locals of get_ready_buffers() and process()
passVars == <<current_time, ready, mode, it, itlen, tries, conns, event>>

histVars == <<sends, evictions, accepted, popped, handed, logged, passKeys>>

\* every integer a bucket id can be
BucketIds == 0..(MaxTs + Interval)

NoRow == [row |-> <<>>, ts |-> -1, d |-> <<>>]

NoEvent ==
    [kind |-> "none", ts |-> -1, n |-> 0, lines |-> 0, count |-> 0, acc |-> 0]

Zero == [b \in BucketIds |-> 0]

\* Stat.__init__
Init ==
    /\ now = 0
    /\ reachable = TRUE
    /\ buffers = <<>>
    /\ last_seen = <<>>
    /\ last_sent = <<>>
    /\ eof = FALSE
    /\ lock = "free"
    /\ output = "none"
    /\ hpc = "idle"
    /\ hrow = NoRow
    /\ hits = 0
    /\ wpc = "new"
    /\ current_time = 0
    /\ ready = <<>>
    /\ mode = "scan"
    /\ it = 1
    /\ itlen = 0
    /\ tries = 0
    /\ conns = 0
    /\ event = NoEvent
    /\ sends = Zero
    /\ evictions = Zero
    /\ accepted = Zero
    /\ popped = Zero
    /\ handed = {}
    /\ logged = {}
    /\ passKeys = {}

\* ------------------------------------------------------------ environment
\* the wall clock advances
Tick ==
    /\ now < MaxTime
    /\ now' = now + 1
    /\ UNCHANGED <<reachable, buffers, last_seen, last_sent, eof, lock,
                   output, hitVars, wpc, passVars, histVars>>
    /\ UNCHANGED <<mainVars, fnVars>>

\* the collector goes away: an open connection loses its peer
LinkDown ==
    /\ reachable
    /\ reachable' = FALSE
    /\ output' = IF output = "open" THEN "dead" ELSE output
    /\ UNCHANGED <<now, buffers, last_seen, last_sent, eof, lock, hitVars, wpc,
                   passVars, histVars>>
    /\ UNCHANGED <<mainVars, fnVars>>

\* the collector accepts connections again
LinkUp ==
    /\ ~reachable
    /\ reachable' = TRUE
    /\ UNCHANGED <<now, buffers, last_seen, last_sent, eof, lock, output,
                   hitVars, wpc, passVars, histVars>>
    /\ UNCHANGED <<mainVars, fnVars>>

Started == wpc \notin {"new", "exit"}

\* the owner of the Stat sets the stop event
Stop ==
    /\ Started
    /\ ~eof
    /\ eof' = TRUE
    /\ UNCHANGED <<clockVars, buffers, last_seen, last_sent, lock, output,
                   hitVars, wpc, passVars, histVars>>
    /\ UNCHANGED <<mainVars, fnVars>>

\* main(): stat = Stat(...); stat.connect(); stat.start()
Start ==
    /\ wpc = "new"
    /\ reachable
    /\ output' = "open"
    /\ wpc' = "wait"
    /\ UNCHANGED <<clockVars, buffers, last_seen, last_sent, eof, lock,
                   hitVars, passVars, histVars>>
    /\ UNCHANGED <<mainVars, fnVars>>

\* main(): stat.connect() raises, the process ends before the worker starts
StartFail ==
    /\ wpc = "new"
    /\ ~reachable
    /\ wpc' = "exit"
    /\ UNCHANGED <<clockVars, buffers, last_seen, last_sent, eof, lock, output,
                   hitVars, passVars, histVars>>
    /\ UNCHANGED <<mainVars, fnVars>>

\* ------------------------------------------------------------------ hit()
\* hit(): status == 0, ignore non-http connections
HitIgnore ==
    /\ Started /\ hpc = "idle" /\ hits < MaxHits
    /\ \E row \in Records :
        /\ row.status = 0
        /\ hits' = hits + 1
    /\ UNCHANGED <<clockVars, buffers, last_seen, last_sent, eof, lock, output,
                   hpc, hrow, wpc, passVars, histVars>>
    /\ UNCHANGED <<mainVars, fnVars>>

\* hit(): ts = self.timestamp(row['@timestamp']); d = {...}
HitBegin ==
    /\ Started /\ hpc = "idle" /\ hits < MaxHits
    /\ \E row \in Records :
        /\ row.status # 0
        /\ hrow' = [row |-> row, ts |-> Timestamp(row.timestamp), d |-> Project(row)]
    /\ hits' = hits + 1
    /\ hpc' = "lock"
    /\ UNCHANGED <<clockVars, buffers, last_seen, last_sent, eof, lock, output,
                   wpc, passVars, histVars>>
    /\ UNCHANGED <<mainVars, fnVars>>

\* hit(): with self.lock
HitAcquire ==
    /\ hpc = "lock"
    /\ lock = "free"
    /\ lock' = "hit"
    /\ hpc' = "locked"
    /\ UNCHANGED <<clockVars, buffers, last_seen, last_sent, eof, output, hrow,
                   hits, wpc, passVars, histVars>>
    /\ UNCHANGED <<mainVars, fnVars>>

\* self.buffers[ts] of the defaultdict(list)
RowsOf(d, ts) == IF Has(d, ts) THEN Get(d, ts) ELSE <<>>

\* variant of HitBody that appends the row without recording last_seen
HitBodyNoSeen ==
    /\ hpc = "locked"
    /\ LET ts == hrow.ts
           d == hrow.d
       IN /\ buffers' = Put(buffers, ts, Append(RowsOf(buffers, ts), d))
          /\ accepted' = [accepted EXCEPT ![ts] = @ + 1]
    /\ lock' = "free"
    /\ hpc' = "idle"
    /\ hrow' = NoRow
    /\ UNCHANGED <<clockVars, last_seen, last_sent, eof, output, hits, wpc,
                   passVars, sends, evictions, popped, handed, logged,
                   passKeys>>
    /\ UNCHANGED <<mainVars, fnVars>>

\* hit(): self.last_seen[ts] = time(); self.buffers[ts].append(d); release
HitBody ==
    /\ hpc = "locked"
    /\ LET ts == hrow.ts
           d == hrow.d
       IN /\ last_seen' = Put(last_seen, ts, now)
          /\ buffers' = Put(buffers, ts, Append(RowsOf(buffers, ts), d))
          /\ accepted' = [accepted EXCEPT ![ts] = @ + 1]
    /\ lock' = "free"
    /\ hpc' = "idle"
    /\ hrow' = NoRow
    /\ UNCHANGED <<clockVars, last_sent, eof, output, hits, wpc, passVars,
                   sends, evictions, popped, handed, logged, passKeys>>
    /\ UNCHANGED <<mainVars, fnVars>>

\* ------------------------------------------------------------------ run()
\* run(): self.eof.wait(1.) times out; get_ready_buffers(): current_time = time()
RunWaitTimeout ==
    /\ wpc = "wait"
    /\ ~eof
    /\ current_time' = now
    /\ wpc' = "acquire"
    /\ UNCHANGED <<clockVars, buffers, last_seen, last_sent, eof, lock, output,
                   hitVars, ready, mode, it, itlen, tries, conns, event,
                   histVars>>
    /\ UNCHANGED <<mainVars, fnVars>>

\* get_ready_buffers(): with self.lock
GetReadyAcquire ==
    /\ wpc = "acquire"
    /\ lock = "free"
    /\ lock' = "run"
    /\ wpc' = "scanning"
    /\ UNCHANGED <<clockVars, buffers, last_seen, last_sent, eof, output,
                   hitVars, passVars, histVars>>
    /\ UNCHANGED <<mainVars, fnVars>>

\* variant of IsReady without the last-seen test
IsReadyEarly(ts, seen, ct, interval, delay) ==
    ~(ts + interval + delay > ct)

\* variant of IsReady that waits for the delay twice
IsReadyLate(ts, seen, ct, interval, delay) ==
    /\ ~(ts + interval + delay + delay > ct)
    /\ ~(seen + delay > ct)

\* get_ready_buffers(): neither `continue` is taken
IsReady(ts, seen, ct, interval, delay) ==
    /\ ~(ts + interval + delay > ct)
    /\ ~(seen + delay > ct)

\* the entries of last_seen a scan at current_time removes
ReadySeen ==
    SelectSeq(last_seen,
              LAMBDA p : IsReady(p[1], p[2], current_time, Interval, Delay))

\* variant of GetReadyBody that does not release the lock
GetReadyBodyKeepsLock ==
    /\ wpc = "scanning"
    /\ LET rk == ReadySeen
       IN /\ ready' = [i \in DOMAIN rk |-> <<rk[i][1], Get(buffers, rk[i][1])>>]
          /\ last_seen' = SelectSeq(last_seen, LAMBDA p : p[1] \notin Keys(rk))
          /\ buffers' = SelectSeq(buffers, LAMBDA p : p[1] \notin Keys(rk))
          /\ popped' = [b \in BucketIds |->
                           IF b \in Keys(rk) THEN accepted[b] ELSE 0]
          /\ accepted' = [b \in BucketIds |->
                           IF b \in Keys(rk) THEN 0 ELSE accepted[b]]
          /\ passKeys' = Keys(rk)
          /\ itlen' = Len(rk)
    /\ handed' = {}
    /\ logged' = {}
    /\ mode' = "scan"
    /\ it' = 1
    /\ event' = NoEvent
    /\ wpc' = "process"
    /\ UNCHANGED <<clockVars, last_sent, eof, lock, output, hitVars, current_time,
                   tries, conns, sends, evictions>>
    /\ UNCHANGED <<mainVars, fnVars>>

\* get_ready_buffers(): the scan of last_seen, the pops, the release of the
\* lock; run(): self.process(ready)
GetReadyBody ==
    /\ wpc = "scanning"
    /\ LET rk == ReadySeen
       IN /\ ready' = [i \in DOMAIN rk |-> <<rk[i][1], Get(buffers, rk[i][1])>>]
          /\ last_seen' = SelectSeq(last_seen, LAMBDA p : p[1] \notin Keys(rk))
          /\ buffers' = SelectSeq(buffers, LAMBDA p : p[1] \notin Keys(rk))
          /\ popped' = [b \in BucketIds |->
                           IF b \in Keys(rk) THEN accepted[b] ELSE 0]
          /\ accepted' = [b \in BucketIds |->
                           IF b \in Keys(rk) THEN 0 ELSE accepted[b]]
          /\ passKeys' = Keys(rk)
          /\ itlen' = Len(rk)
    /\ handed' = {}
    /\ logged' = {}
    /\ lock' = "free"
    /\ mode' = "scan"
    /\ it' = 1
    /\ event' = NoEvent
    /\ wpc' = "process"
    /\ UNCHANGED <<clockVars, last_sent, eof, output, hitVars, current_time,
                   tries, conns, sends, evictions>>
    /\ UNCHANGED <<mainVars, fnVars>>

\* run(): the loop ends, self.process(self.buffers) iterates the live dict
RunWaitStopped ==
    /\ wpc = "wait"
    /\ eof
    /\ mode' = "final"
    /\ it' = 1
    /\ itlen' = Len(buffers)
    /\ passKeys' = Keys(buffers)
    /\ handed' = {}
    /\ logged' = {}
    /\ event' = NoEvent
    /\ wpc' = "process"
    /\ UNCHANGED <<clockVars, buffers, last_seen, last_sent, eof, lock, output,
                   hitVars, current_time, ready, tries, conns, sends, evictions,
                   accepted, popped>>
    /\ UNCHANGED <<mainVars, fnVars>>

\* -------------------------------------------------------------- process()
\* process(buffers): the dict the for loop iterates
Items == IF mode = "final" THEN buffers ELSE ready

CurTs == Items[it][1]

CurRows == Items[it][2]

\* process() returns: to the while loop of run(), or run() ends
Return ==
    /\ wpc' = IF mode = "final" THEN "done" ELSE "wait"
    /\ current_time' = 0
    /\ ready' = <<>>
    /\ it' = 1
    /\ itlen' = 0
    /\ tries' = 0
    /\ conns' = 0
    /\ UNCHANGED mode

\* the for loop goes on to the next item
Continue ==
    /\ wpc' = "process"
    /\ it' = it + 1
    /\ UNCHANGED <<current_time, ready, mode, itlen, tries, conns>>

\* the dict iterator finds the dict resized by a concurrent hit(): RuntimeError
\* leaves process() and run(), the worker thread ends
ProcessResized ==
    /\ wpc = "process"
    /\ Len(Items) # itlen
    /\ wpc' = "crashed"
    /\ UNCHANGED <<clockVars, buffers, last_seen, last_sent, eof, lock, output,
                   hitVars, passVars, histVars>>
    /\ UNCHANGED <<mainVars, fnVars>>

\* the for loop is exhausted
ProcessReturn ==
    /\ wpc = "process"
    /\ Len(Items) = itlen
    /\ it > Len(Items)
    /\ Return
    /\ event' = NoEvent
    /\ UNCHANGED <<clockVars, buffers, last_seen, last_sent, eof, lock, output,
                   hitVars, histVars>>
    /\ UNCHANGED <<mainVars, fnVars>>

\* if ts in self.last_sent: logging.error(...); continue
ProcessLate ==
    /\ wpc = "process"
    /\ Len(Items) = itlen
    /\ it <= Len(Items)
    /\ CurTs \in Range(last_sent)
    /\ event' = [NoEvent EXCEPT !.kind = "late", !.ts = CurTs, !.n = Len(CurRows)]
    /\ logged' = logged \cup {CurTs}
    /\ Continue
    /\ UNCHANGED <<clockVars, buffers, last_seen, last_sent, eof, lock, output,
                   hitVars, sends, evictions, accepted, popped, handed, passKeys>>
    /\ UNCHANGED <<mainVars, fnVars>>

\* self.last_sent.append(ts); if len(self.last_sent) > 100: popleft()
Remember(q, ts) ==
    LET a == Append(q, ts)
    IN IF Len(a) > LastSentMax THEN Tail(a) ELSE a

\* the id that is no longer in the deque once ts is appended to q
Forgotten(q, ts) ==
    IF Len(q) + 1 > LastSentMax
    THEN {Head(Append(q, ts))} \ Range(Remember(q, ts))
    ELSE {}

\* variant of ProcessSend without the test of last_sent
ProcessSendAgain ==
    /\ wpc = "process"
    /\ Len(Items) = itlen
    /\ it <= Len(Items)
    /\ last_sent' = Remember(last_sent, CurTs)
    /\ evictions' = [b \in BucketIds |->
                       evictions[b] + IF b \in Forgotten(last_sent, CurTs) THEN 1 ELSE 0]
    /\ sends' = [sends EXCEPT ![CurTs] = @ + 1]
    /\ handed' = handed \cup {CurTs}
    /\ wpc' = "send1"
    /\ tries' = 1
    /\ conns' = 0
    /\ event' = NoEvent
    /\ UNCHANGED <<clockVars, buffers, last_seen, eof, lock, output, hitVars,
                   current_time, ready, mode, it, itlen, accepted, popped,
                   logged, passKeys>>
    /\ UNCHANGED <<mainVars, fnVars>>

\* ts is not in last_sent: remember it and call the first send_metrics
ProcessSend ==
    /\ wpc = "process"
    /\ Len(Items) = itlen
    /\ it <= Len(Items)
    /\ CurTs \notin Range(last_sent)
    /\ last_sent' = Remember(last_sent, CurTs)
    /\ evictions' = [b \in BucketIds |->
                       evictions[b] + IF b \in Forgotten(last_sent, CurTs) THEN 1 ELSE 0]
    /\ sends' = [sends EXCEPT ![CurTs] = @ + 1]
    /\ handed' = handed \cup {CurTs}
    /\ wpc' = "send1"
    /\ tries' = 1
    /\ conns' = 0
    /\ event' = NoEvent
    /\ UNCHANGED <<clockVars, buffers, last_seen, eof, lock, output, hitVars,
                   current_time, ready, mode, it, itlen, accepted, popped,
                   logged, passKeys>>
    /\ UNCHANGED <<mainVars, fnVars>>

\* the rows hit() accepted for the window being sent
CurAccepted == IF mode = "final" THEN accepted[CurTs] ELSE popped[CurTs]

\* send_metrics(self.metrics(rows), ts) wrote and flushed every line
Emitted ==
    [kind |-> "emit", ts |-> CurTs, n |-> Len(CurRows),
     lines |-> Cardinality(CountMetrics(metrics(CurRows))),
     count |-> CountSum(metrics(CurRows)), acc |-> CurAccepted]

\* logging.error("can't send metrics", exc_info=True)
CantSend == [NoEvent EXCEPT !.kind = "cantsend", !.ts = CurTs, !.n = Len(CurRows)]

\* the first send_metrics succeeds
Send1Ok ==
    /\ wpc = "send1"
    /\ output = "open"
    /\ event' = Emitted
    /\ Continue
    /\ UNCHANGED <<clockVars, buffers, last_seen, last_sent, eof, lock, output,
                   hitVars, histVars>>
    /\ UNCHANGED <<mainVars, fnVars>>

\* the first send_metrics raises socket.error (OSError, BrokenPipeError
\* included): retry on network error, self.connect()
Send1SocketError ==
    /\ wpc = "send1"
    /\ output = "dead"
    /\ wpc' = "connect"
    /\ conns' = conns + 1
    /\ UNCHANGED <<clockVars, buffers, last_seen, last_sent, eof, lock, output,
                   hitVars, current_time, ready, mode, it, itlen, tries, event,
                   histVars>>
    /\ UNCHANGED <<mainVars, fnVars>>

\* the first send_metrics writes to a closed file: ValueError, caught by the
\* bare except, logging.error("can't send metrics")
Send1Closed ==
    /\ wpc = "send1"
    /\ output = "closed"
    /\ event' = CantSend
    /\ Continue
    /\ UNCHANGED <<clockVars, buffers, last_seen, last_sent, eof, lock, output,
                   hitVars, histVars>>
    /\ UNCHANGED <<mainVars, fnVars>>

\* connect(): the old output is closed and a new connection is made; the
\* second send_metrics is called
ConnectOk ==
    /\ wpc = "connect"
    /\ reachable
    /\ output' = "open"
    /\ wpc' = "send2"
    /\ tries' = tries + 1
    /\ UNCHANGED <<clockVars, buffers, last_seen, last_sent, eof, lock, hitVars,
                   current_time, ready, mode, it, itlen, conns, event, histVars>>
    /\ UNCHANGED <<mainVars, fnVars>>

\* variant of ConnectFail that treats the failure as a shutdown request
ConnectFailStops ==
    /\ wpc = "connect"
    /\ ~reachable
    /\ output' = "closed"
    /\ event' = CantSend
    /\ eof' = TRUE
    /\ Return
    /\ UNCHANGED <<clockVars, buffers, last_seen, last_sent, lock, hitVars,
                   histVars>>
    /\ UNCHANGED <<mainVars, fnVars>>

\* connect(): the old output is closed, no address connects (Exception, or an
\* OSError of getaddrinfo): caught by the bare except and logged
ConnectFail ==
    /\ wpc = "connect"
    /\ ~reachable
    /\ output' = "closed"
    /\ event' = CantSend
    /\ Continue
    /\ UNCHANGED <<clockVars, buffers, last_seen, last_sent, eof, lock, hitVars,
                   histVars>>
    /\ UNCHANGED <<mainVars, fnVars>>

\* connect(): self.output.close() flushes the lines of the failed send and
\* raises BrokenPipeError: self.eof.set(); return
ConnectBrokenPipe ==
    /\ wpc = "connect"
    /\ output' = "closed"
    /\ eof' = TRUE
    /\ Return
    /\ event' = NoEvent
    /\ UNCHANGED <<clockVars, buffers, last_seen, last_sent, lock, hitVars,
                   histVars>>
    /\ UNCHANGED <<mainVars, fnVars>>

\* the second send_metrics succeeds
Send2Ok ==
    /\ wpc = "send2"
    /\ output = "open"
    /\ event' = Emitted
    /\ Continue
    /\ UNCHANGED <<clockVars, buffers, last_seen, last_sent, eof, lock, output,
                   hitVars, histVars>>
    /\ UNCHANGED <<mainVars, fnVars>>

\* variant of Send2Error that reconnects again
Send2Retry ==
    /\ wpc = "send2"
    /\ output = "dead"
    /\ wpc' = "connect"
    /\ conns' = conns + 1
    /\ UNCHANGED <<clockVars, buffers, last_seen, last_sent, eof, lock, output,
                   hitVars, current_time, ready, mode, it, itlen, tries, event,
                   histVars>>
    /\ UNCHANGED <<mainVars, fnVars>>

\* the second send_metrics raises an OSError that is no BrokenPipeError:
\* caught by the bare except, logging.error("can't send metrics")
Send2Error ==
    /\ wpc = "send2"
    /\ output = "dead"
    /\ event' = CantSend
    /\ Continue
    /\ UNCHANGED <<clockVars, buffers, last_seen, last_sent, eof, lock, output,
                   hitVars, histVars>>
    /\ UNCHANGED <<mainVars, fnVars>>

\* the second send_metrics raises BrokenPipeError: self.eof.set(); return
Send2BrokenPipe ==
    /\ wpc = "send2"
    /\ output = "dead"
    /\ eof' = TRUE
    /\ Return
    /\ event' = NoEvent
    /\ UNCHANGED <<clockVars, buffers, last_seen, last_sent, lock, output,
                   hitVars, histVars>>
    /\ UNCHANGED <<mainVars, fnVars>>

Next ==
    \/ Tick \/ LinkDown \/ LinkUp \/ Stop \/ Start \/ StartFail
    \/ HitIgnore \/ HitBegin \/ HitAcquire \/ HitBody
    \/ RunWaitTimeout \/ GetReadyAcquire \/ GetReadyBody \/ RunWaitStopped
    \/ ProcessResized \/ ProcessReturn \/ ProcessLate \/ ProcessSend
    \/ Send1Ok \/ Send1SocketError \/ Send1Closed
    \/ ConnectOk \/ ConnectFail \/ ConnectBrokenPipe
    \/ Send2Ok \/ Send2Error \/ Send2BrokenPipe

\* main() has not been entered
MainIdle ==
    /\ mpc = "idle"
    /\ args = <<>>
    /\ es_up = TRUE
    /\ carbon_up = TRUE
    /\ es_kwargs = <<>>
    /\ carbon_prefix = Unbound
    /\ stat_kwargs = <<>>
    /\ stat = NoStat
    /\ nginx2es = <<>>
    /\ run = None
    /\ source = <<>>
    /\ exit_status = 0
    /\ calls = <<>>

\* neither log10_bins() nor metrics() is being evaluated on its own
FnIdle ==
    /\ series = <<>>
    /\ binned = <<>>
    /\ df = <<>>
    /\ yielded = {}

\* the Stat is constructed; main() and the function calls stay idle
StatInit == Init /\ MainIdle /\ FnIdle

Spec == StatInit /\ [][Next]_vars

\* ------------------------------------------------------------------ main()
\* socket.gethostname(), the default of --hostname
Hostname == "web1"

\* the values of --carbon-interval and --carbon-delay tried
CarbonIntervals == {5, 10}

\* an integer option that was not given (None)
NoInt == -1

CarbonDelays == {NoInt, 0, 3}

\* the command lines main() is started with; seekable is f.seekable() of the
\* input the file name stands for
Args ==
    [carbon : {None, "graphite"},
     carbon_prefix : {None, "front"},
     carbon_interval : CarbonIntervals,
     carbon_delay : CarbonDelays,
     stdout : BOOLEAN,
     mode : {"tail", "from-start", "one-shot"},
     min_timestamp : {None, "2017-01-01"},
     max_timestamp : {None, "2017-02-01"},
     seekable : BOOLEAN]

\* args = parser.parse_args()
MainInit ==
    /\ Init
    /\ FnIdle
    /\ mpc = "start"
    /\ args \in Args
    /\ es_up \in BOOLEAN
    /\ carbon_up \in BOOLEAN
    /\ es_kwargs = <<>>
    /\ carbon_prefix = Unbound
    /\ stat_kwargs = <<>>
    /\ stat = NoStat
    /\ nginx2es = <<>>
    /\ run = None
    /\ source = <<>>
    /\ exit_status = 0
    /\ calls = <<>>

\* a Python truth test of a string option and of an integer option
Truthy(v) == v # None

TruthyInt(v) == v # NoInt /\ v # 0

\* d[k] = v for a dict kept as a function
With(d, k, v) == [x \in DOMAIN d \cup {k} |-> IF x = k THEN v ELSE d[x]]

\* es_kwargs = {'timeout': ...}; the timestamp options are added to es_kwargs;
\* es = Elasticsearch(**es_kwargs)
MainEs ==
    /\ mpc = "start"
    /\ LET k0 == [x \in {"timeout"} |-> 30]
           k1 == IF Truthy(args.min_timestamp)
                 THEN With(k0, "min_timestamp", args.min_timestamp) ELSE k0
           k2 == IF Truthy(args.max_timestamp)
                 THEN With(k1, "max_timestamp", args.max_timestamp) ELSE k1
       IN  es_kwargs' = k2
    /\ calls' = Append(calls, "Elasticsearch")
    /\ mpc' = "carbon"
    /\ UNCHANGED <<args, es_up, carbon_up, carbon_prefix, stat_kwargs, stat,
                   nginx2es, run, source, exit_status, statVars, fnVars>>

\* if args.carbon: ... else: stat = None
MainNoCarbon ==
    /\ mpc = "carbon"
    /\ ~Truthy(args.carbon)
    /\ stat' = NoStat
    /\ mpc' = "nginx2es"
    /\ UNCHANGED <<args, es_up, carbon_up, es_kwargs, carbon_prefix,
                   stat_kwargs, nginx2es, run, source, exit_status, calls,
                   statVars, fnVars>>

\* if args.carbon_prefix is None: carbon_prefix = 'nginx2es.%s' % args.hostname
\* (there is no else branch: the local stays unbound)
MainCarbonPrefix ==
    /\ mpc = "carbon"
    /\ Truthy(args.carbon)
    /\ carbon_prefix' = IF args.carbon_prefix = None
                        THEN <<"nginx2es", Hostname>>
                        ELSE carbon_prefix
    /\ mpc' = "stat_kwargs"
    /\ UNCHANGED <<args, es_up, carbon_up, es_kwargs, stat_kwargs, stat,
                   nginx2es, run, source, exit_status, calls, statVars,
                   fnVars>>

\* stat_kwargs = {'prefix': carbon_prefix, 'interval': ...}, host and port,
\* if args.carbon_delay: stat_kwargs['delay'] = args.carbon_delay
MainStatKwargs ==
    /\ mpc = "stat_kwargs"
    /\ carbon_prefix # Unbound
    /\ LET k0 == [x \in {"prefix", "interval", "host"} |->
                    CASE x = "prefix" -> carbon_prefix
                      [] x = "interval" -> args.carbon_interval
                      [] x = "host" -> args.carbon]
       IN  stat_kwargs' = IF TruthyInt(args.carbon_delay)
                          THEN With(k0, "delay", args.carbon_delay) ELSE k0
    /\ mpc' = "stat"
    /\ UNCHANGED <<args, es_up, carbon_up, es_kwargs, carbon_prefix, stat,
                   nginx2es, run, source, exit_status, calls, statVars,
                   fnVars>>

\* 'prefix': carbon_prefix reads the unbound local: UnboundLocalError, the
\* interpreter prints the traceback and exits with status 1
MainStatKwargsUnbound ==
    /\ mpc = "stat_kwargs"
    /\ carbon_prefix = Unbound
    /\ exit_status' = 1
    /\ mpc' = "exit"
    /\ UNCHANGED <<args, es_up, carbon_up, es_kwargs, carbon_prefix,
                   stat_kwargs, stat, nginx2es, run, source, calls, statVars,
                   fnVars>>

\* Stat(**stat_kwargs): Stat.__init__ with its default for delay
NewStat(kw, out) ==
    [prefix |-> kw["prefix"],
     host |-> kw["host"],
     interval |-> kw["interval"],
     delay |-> IF "delay" \in DOMAIN kw THEN kw["delay"] ELSE StatDefaultDelay,
     output |-> out,
     started |-> TRUE]

\* stat = Stat(**stat_kwargs); stat.output = sys.stdout; stat.start()
MainStatStdout ==
    /\ mpc = "stat"
    /\ args.stdout
    /\ stat' = NewStat(stat_kwargs, "stdout")
    /\ calls' = Append(calls, "stat.start")
    /\ mpc' = "nginx2es"
    /\ UNCHANGED <<args, es_up, carbon_up, es_kwargs, carbon_prefix,
                   stat_kwargs, nginx2es, run, source, exit_status, statVars,
                   fnVars>>

\* stat = Stat(**stat_kwargs); stat.connect(); stat.start()
MainStatConnect ==
    /\ mpc = "stat"
    /\ ~args.stdout
    /\ carbon_up
    /\ stat' = NewStat(stat_kwargs, "socket")
    /\ calls' = calls \o <<"stat.connect", "stat.start">>
    /\ mpc' = "nginx2es"
    /\ UNCHANGED <<args, es_up, carbon_up, es_kwargs, carbon_prefix,
                   stat_kwargs, nginx2es, run, source, exit_status, statVars,
                   fnVars>>

\* stat.connect() raises: nothing in main() catches it, exit status 1
MainStatConnectFail ==
    /\ mpc = "stat"
    /\ ~args.stdout
    /\ ~carbon_up
    /\ calls' = Append(calls, "stat.connect")
    /\ exit_status' = 1
    /\ mpc' = "exit"
    /\ UNCHANGED <<args, es_up, carbon_up, es_kwargs, carbon_prefix,
                   stat_kwargs, stat, nginx2es, run, source, statVars,
                   fnVars>>

\* nginx2es = Nginx2ES(es, access_log_parser, args.index, stat=stat,
\*                     chunk_size=..., max_retries=..., max_delay=...)
MainNginx2ES ==
    /\ mpc = "nginx2es"
    /\ nginx2es' = [x \in {"stat", "chunk_size", "max_retries", "max_delay"} |->
                      CASE x = "stat" -> stat
                        [] x = "chunk_size" -> 500
                        [] x = "max_retries" -> 3
                        [] x = "max_delay" -> 10]
    /\ calls' = Append(calls, "Nginx2ES")
    /\ mpc' = "template"
    /\ UNCHANGED <<args, es_up, carbon_up, es_kwargs, carbon_prefix,
                   stat_kwargs, stat, run, source, exit_status, statVars,
                   fnVars>>

\* if args.stdout: run = nginx2es.stdout
MainStdout ==
    /\ mpc = "template"
    /\ args.stdout
    /\ run' = "nginx2es.stdout"
    /\ mpc' = "open"
    /\ UNCHANGED <<args, es_up, carbon_up, es_kwargs, carbon_prefix,
                   stat_kwargs, stat, nginx2es, source, exit_status, calls,
                   statVars, fnVars>>

\* check_template(...) returns; run = nginx2es.run
MainCheckTemplate ==
    /\ mpc = "template"
    /\ ~args.stdout
    /\ es_up
    /\ calls' = Append(calls, "check_template")
    /\ run' = "nginx2es.run"
    /\ mpc' = "open"
    /\ UNCHANGED <<args, es_up, carbon_up, es_kwargs, carbon_prefix,
                   stat_kwargs, stat, nginx2es, source, exit_status, statVars,
                   fnVars>>

\* variant of MainCheckTemplateFail that logs the error and goes on
MainCheckTemplateFailGoesOn ==
    /\ mpc = "template"
    /\ ~args.stdout
    /\ ~es_up
    /\ calls' = Append(calls, "check_template")
    /\ run' = "nginx2es.run"
    /\ mpc' = "open"
    /\ UNCHANGED <<args, es_up, carbon_up, es_kwargs, carbon_prefix,
                   stat_kwargs, stat, nginx2es, source, exit_status, statVars,
                   fnVars>>

\* check_template(...) raises ConnectionError: logging.error, sys.exit(1)
MainCheckTemplateFail ==
    /\ mpc = "template"
    /\ ~args.stdout
    /\ ~es_up
    /\ calls' = Append(calls, "check_template")
    /\ exit_status' = 1
    /\ mpc' = "exit"
    /\ UNCHANGED <<args, es_up, carbon_up, es_kwargs, carbon_prefix,
                   stat_kwargs, stat, nginx2es, run, source, statVars,
                   fnVars>>

\* f = io.TextIOWrapper(sys.stdin.buffer, ...) or f = open(args.filename, ...)
MainOpen ==
    /\ mpc = "open"
    /\ calls' = Append(calls, "open")
    /\ mpc' = "dispatch"
    /\ UNCHANGED <<args, es_up, carbon_up, es_kwargs, carbon_prefix,
                   stat_kwargs, stat, nginx2es, run, source, exit_status,
                   statVars, fnVars>>

\* if not f.seekable(): run(f)
MainRunStream ==
    /\ mpc = "dispatch"
    /\ ~args.seekable
    /\ source' = <<"f">>
    /\ calls' = Append(calls, "run")
    /\ mpc' = "running"
    /\ UNCHANGED <<args, es_up, carbon_up, es_kwargs, carbon_prefix,
                   stat_kwargs, stat, nginx2es, run, exit_status, statVars,
                   fnVars>>

\* elif args.mode == 'one-shot': run(f)
MainRunOneShot ==
    /\ mpc = "dispatch"
    /\ args.seekable
    /\ args.mode = "one-shot"
    /\ source' = <<"f">>
    /\ calls' = Append(calls, "run")
    /\ mpc' = "running"
    /\ UNCHANGED <<args, es_up, carbon_up, es_kwargs, carbon_prefix,
                   stat_kwargs, stat, nginx2es, run, exit_status, statVars,
                   fnVars>>

\* variant of FromStart that replays the file in every mode
FromStartAlways(m) == TRUE

\* from_start = (args.mode == 'from-start')
FromStart(m) == m = "from-start"

\* else: f.close(); run(Watcher(args.filename, from_start))
MainRunWatcher ==
    /\ mpc = "dispatch"
    /\ args.seekable
    /\ args.mode # "one-shot"
    /\ source' = <<"Watcher", FromStart(args.mode)>>
    /\ calls' = calls \o <<"f.close", "run">>
    /\ mpc' = "running"
    /\ UNCHANGED <<args, es_up, carbon_up, es_kwargs, carbon_prefix,
                   stat_kwargs, stat, nginx2es, run, exit_status, statVars,
                   fnVars>>

MainNext ==
    \/ MainEs \/ MainNoCarbon \/ MainCarbonPrefix
    \/ MainStatKwargs \/ MainStatKwargsUnbound
    \/ MainStatStdout \/ MainStatConnect \/ MainStatConnectFail
    \/ MainNginx2ES \/ MainStdout \/ MainCheckTemplate \/ MainCheckTemplateFail
    \/ MainOpen \/ MainRunStream \/ MainRunOneShot \/ MainRunWatcher

SpecMain == MainInit /\ [][MainNext]_vars

\* ------------------------------------------- log10_bins() and metrics()
\* durations are drawn from 0..MaxDuration and from the decades above
MaxDuration == 40

Durations == (0..MaxDuration) \cup {100, 1000, 10000, 100000}

\* 0.001 s, the argument the source's comment gives for the bucket -30
Threshold == 10

\* log10_bins() is given a series of two durations
BinsInit ==
    /\ Init
    /\ MainIdle
    /\ series \in {<<x, y>> : x \in Durations, y \in Durations}
    /\ binned = <<>>
    /\ df = <<>>
    /\ yielded = {}

\* self.log10_bins(series)
Log10BinsCall ==
    /\ series # <<>>
    /\ binned = <<>>
    /\ binned' = [i \in DOMAIN series |-> log10_bins(series[i])]
    /\ UNCHANGED <<series, df, yielded, statVars, mainVars>>

SpecBins == BinsInit /\ [][Log10BinsCall]_vars

\* the reduced rows hit() stores: they differ in path, cache status, status,
\* request time and upstream times
MetricRows ==
    [host : {"web"},
     request_path_1 : {"api", "12345"},
     request_path_2 : {None},
     upstream_cache_status : {None, "HIT", "MISS"},
     status : {200, 404},
     request_time : {0, 20},
     upstream_response_time : {<<>>, <<10, 15>>},
     bytes_sent : {100}]

\* metrics() is given a window of two rows
MetricsInit ==
    /\ Init
    /\ MainIdle
    /\ series = <<>>
    /\ binned = <<>>
    /\ df \in {<<a, b>> : a \in MetricRows, b \in MetricRows}
    /\ yielded = {}

\* self.metrics(rows)
MetricsCall ==
    /\ df # <<>>
    /\ yielded = {}
    /\ yielded' = metrics(df)
    /\ UNCHANGED <<series, binned, df, statVars, mainVars>>

SpecMetrics == MetricsInit /\ [][MetricsCall]_vars

\* ----------------------------------------------------------------- claims
\* the worker computes the metrics of a window and delivers them
Finalizing == {"send1", "connect", "send2"}

\* a step of the worker thread
WorkerStep == wpc' # wpc \/ it' # it

\* the worker, after a failed first send, ends the handling of the window
\* without having written it
RetryFails ==
    /\ wpc \in {"connect", "send2"}
    /\ wpc' \notin {"connect", "send2"}
    /\ event'.kind # "emit"

C2_CountSumIsAccepted ==
    event.kind = "emit" => event.count = event.acc /\ event.n = event.acc

\* a window of two groups was emitted
C2_Witness == event.kind = "emit" /\ event.lines = 2 /\ event.count >= 2

\* C3: only a periodic scan removes a window from the active maps, and it
\* removes none unless bucket id + interval + delay and last-seen + delay have
\* both elapsed at the scan's clock reading; a bucket whose last record came
\* less than delay before the reading keeps its rows.
C3_ScanRemovesOnlyReady ==
    [][ /\ Keys(buffers) \ Keys(buffers') # {} => wpc = "scanning"
        /\ Keys(last_seen) \ Keys(last_seen') # {} => wpc = "scanning"
        /\ wpc = "scanning" /\ wpc' = "process" =>
              \A b \in Keys(last_seen) :
                  /\ b \notin Keys(last_seen') =>
                        /\ b + Interval + Delay <= current_time
                        /\ Get(last_seen, b) + Delay <= current_time
                  /\ Get(last_seen, b) + Delay > current_time =>
                        /\ b \in Keys(last_seen') /\ b \in Keys(buffers')
                        /\ Get(buffers', b) = Get(buffers, b)
                        /\ b \notin Keys(ready')
      ]_vars

\* a scan left a bucket open whose end + delay had elapsed, because its last
\* record was too recent, and removed another
C3_Witness ==
    /\ wpc = "process" /\ mode = "scan" /\ it = 1 /\ ready # <<>>
    /\ \E b \in Keys(last_seen) :
          /\ b + Interval + Delay <= current_time
          /\ Get(last_seen, b) <= current_time
          /\ Get(last_seen, b) + Delay > current_time

\* C4: a scan whose clock is past bucket id + interval + delay and last-seen +
\* delay removes the bucket from the active maps with all its rows, and a pass
\* that ends with the stop event unset has given every window of the scan to
\* send_metrics (or logged it as late); with interval 10 and delay 5 the scan
\* at 1016 takes the bucket 1000 last seen at 1005.
C4_ReadyWindowFinalized ==
    [][ /\ IsReady(1000, 1005, 1016, 10, 5)
        /\ wpc = "scanning" /\ wpc' = "process" =>
              \A b \in Keys(last_seen) :
                  (/\ b + Interval + Delay < current_time
                   /\ Get(last_seen, b) + Delay < current_time)
                  => /\ b \notin Keys(buffers') /\ b \notin Keys(last_seen')
                     /\ b \in Keys(ready')
                     /\ Get(ready', b) = Get(buffers, b)
        /\ wpc = "process" /\ it <= Len(Items) /\ CurTs \notin Range(last_sent)
           /\ WorkerStep /\ wpc' # "crashed"
             => wpc' = "send1" /\ CurTs \in handed'
        /\ wpc \in {"process"} \cup Finalizing /\ wpc' = "wait" /\ ~eof' =>
              passKeys = handed \cup logged
      ]_vars

\* the window of a bucket a scan found ready was written to the socket
C4_Witness ==
    /\ wpc = "process" /\ mode = "scan" /\ ~eof
    /\ event.kind = "emit" /\ event.n >= 2
    /\ event.ts + Interval + Delay < current_time

\* C5 as stated: when the first send fails and the reconnect or the resend
\* fails too, the window's metrics are logged and dropped.
C5_SecondFailureIsLogged ==
    [][ RetryFails => event'.kind = "cantsend" ]_vars

\* C5 amended: at most two send_metrics calls and one connect call are made
\* for a window; when the reconnect or the resend fails the window is dropped,
\* with a log entry, or, for a BrokenPipeError, with the stop event set and
\* process() left; a failed window is never put back into the active maps.
C5_AtMostOneRetry ==
    [][ /\ tries' <= 2 /\ conns' <= 1
        /\ RetryFails
             => /\ \/ event'.kind = "cantsend" /\ event'.ts = CurTs /\ wpc' = "process"
                   \/ event'.kind = "none" /\ eof' /\ wpc' \in {"wait", "done"}
                /\ buffers' = buffers /\ last_seen' = last_seen
      ]_vars

\* the resend of a window failed and was logged
C5_Witness ==
    /\ event.kind = "cantsend" /\ tries = 2 /\ conns = 1 /\ wpc = "process"

\* C6 as stated: after the first send and the reconnect-and-resend failed with
\* a socket error of any kind, the stop event stays unset and the loop goes on
\* to the next window.
C6_AnyFailureContinues ==
    [][ RetryFails => (eof' = eof /\ wpc' = "process" /\ it' = it + 1) ]_vars

\* C6 amended: after a delivery failure that is logged (any error but a
\* BrokenPipeError of the reconnect or the resend) the stop event is as it was,
\* the for loop goes on to the next window with the remaining windows intact,
\* and a scan's pass that ends with the stop event unset returns to the while
\* loop having handled every window of the scan.
C6_LoggedFailureContinues ==
    [][ /\ wpc \in Finalizing /\ event'.kind = "cantsend" =>
              /\ eof' = eof
              /\ wpc' = "process" /\ it' = it + 1
              /\ ready' = ready /\ buffers' = buffers /\ mode' = mode
        /\ wpc = "process" /\ mode = "scan" /\ it > Len(ready) /\ WorkerStep =>
              /\ wpc' = "wait"
              /\ passKeys = handed \cup logged
      ]_vars

\* a window's delivery failed and another window of the same scan is still
\* to be handled
C6_Witness ==
    /\ event.kind = "cantsend" /\ wpc = "process" /\ mode = "scan"
    /\ it = 2 /\ Len(ready) = 2 /\ ~eof

\* C7: when the worker has ended, every window that was in the active buffer
\* map when the final flush began was given to a delivery attempt (or logged
\* as late), also with hit() called concurrently.
C7_FinalFlushHandsAll ==
    wpc \in {"done", "crashed"} => passKeys \subseteq handed \cup logged

\* the worker reads self.buffers or self.last_seen
WorkerReadsActive ==
    \/ wpc = "scanning"
    \/ mode = "final" /\ wpc \in Finalizing

\* C8: the rows the worker finalizes are not rows of the active buffer map,
\* and the worker reads the active maps only while it holds the lock.
C8_OpenXorFinalized ==
    /\ wpc \in Finalizing => ~(mode = "final" /\ Has(buffers, CurTs))
    /\ WorkerReadsActive => lock = "run"

\* C9: the worker holds the lock only in the scan of get_ready_buffers, never
\* while it computes, sends or reconnects; a hit() waiting for the lock waits
\* for that scan only, which can end at once.
C9_LockOnlyWhileScanning ==
    /\ lock = "run" <=> wpc = "scanning"
    /\ hpc = "lock" /\ lock # "free" => wpc = "scanning" /\ ENABLED GetReadyBody
    /\ hpc = "lock" /\ lock = "free" => ENABLED HitAcquire

\* hit() is in its critical section while the worker delivers a window
C9_Witness == hpc = "locked" /\ lock = "hit" /\ wpc \in {"connect", "send2"}

\* C10: a hit() call that is not accepted changes nothing, and only a record
\* of status 0 is not accepted; an accepted record appends its projection to
\* the bucket that is the multiple of the interval at or below its timestamp,
\* sets that bucket's last-seen to the clock and leaves every other bucket.
C10_HitEffect ==
    [][ /\ hits' = hits + 1 =>
              /\ UNCHANGED <<buffers, last_seen, last_sent, lock, accepted>>
              /\ \/ hpc' = "idle" /\ hrow' = hrow
                 \/ hpc' = "lock" /\ hrow'.row.status # 0
        /\ hpc = "locked" /\ hpc' = "idle" =>
              LET b == hrow.ts
                  t == hrow.row.timestamp
              IN /\ hrow.row.status # 0
                 /\ b % Interval = 0 /\ b <= t /\ t < b + Interval
                 /\ Get(buffers', b) = Append(RowsOf(buffers, b), hrow.d)
                 /\ DOMAIN hrow.d = columns_set
                 /\ \A k \in columns_set : hrow.d[k] = hrow.row[k]
                 /\ Get(last_seen', b) = now
                 /\ Keys(buffers') = Keys(buffers) \cup {b}
                 /\ Keys(last_seen') = Keys(last_seen) \cup {b}
                 /\ \A c \in Keys(buffers) \ {b} :
                       /\ Get(buffers', c) = Get(buffers, c)
                       /\ Get(last_seen', c) = Get(last_seen, c)
      ]_vars

\* one call was ignored and two records were appended to one bucket, the
\* second after the clock advanced
C10_Witness ==
    /\ hits = 3 /\ hpc = "idle"
    /\ \E b \in Keys(buffers) :
          /\ Len(Get(buffers, b)) = 2
          /\ Get(last_seen, b) = now /\ now > 0
    /\ Len(buffers) = 1

\* two rows that differ in the cache status and in nothing else
DiffersOnlyInCache(a, b) ==
    /\ NormCache(a.upstream_cache_status) # NormCache(b.upstream_cache_status)
    /\ \A k \in columns_set \ {"upstream_cache_status"} : a[k] = b[k]

\* the metric lines of one kind
Lines(ms, n, a) == {m \in ms : m.name = n /\ m.agg = a}

\* C11: every metric of a window is grouped by (host, path 1, path 2, status,
\* cache status): two records that differ only in the cache status never
\* contribute to the same upstream-duration or bytes-sent line, so a window of
\* two such records yields two bytes-sent lines and, when they have an
\* upstream time, two upstream sum lines and two upstream count lines.
C11_CacheStatusSeparates ==
    (yielded # {} /\ DiffersOnlyInCache(df[1], df[2])) =>
        /\ Cardinality(Lines(yielded, "bytes_sent", "")) = 2
        /\ HasUpstream(df[1]) =>
              /\ Cardinality(Lines(yielded, "upstream_response_time", "sum")) = 2
              /\ Cardinality(Lines(yielded, "upstream_response_time", "count")) = 2

\* C12: log10_bins is monotonic nondecreasing over the non-negative durations
\* and gives zero and every duration below 0.001 s the same lowest bucket.
C12_MonotoneLowestBucket ==
    binned # <<>> =>
        /\ series[1] <= series[2] => binned[1] <= binned[2]
        /\ (series[1] < Threshold /\ series[2] = 0) => binned[1] = binned[2]

\* C13: when records go to the indexing backend, a connection failure of the
\* template check ends the process with a non-zero status before the input is
\* opened or read; with --stdout neither the template check nor a connection
\* to the metrics collector is attempted.
C13_TemplateFailureIsFatal ==
    /\ ("check_template" \in Range(calls) /\ ~es_up) =>
          /\ mpc = "exit"
          /\ exit_status # 0
          /\ "open" \notin Range(calls)
          /\ "run" \notin Range(calls)
    /\ (~args.stdout /\ ~es_up) => "run" \notin Range(calls)
    /\ (mpc # "idle" /\ args.stdout) =>
          /\ "check_template" \notin Range(calls)
          /\ "stat.connect" \notin Range(calls)

\* the template check failed and ended the process
C13_Witness ==
    /\ mpc = "exit"
    /\ exit_status = 1
    /\ calls[Len(calls)] = "check_template"
    /\ stat # NoStat

\* C14: a non-seekable input is consumed directly whatever --mode is; a
\* seekable file in mode one-shot is read once without a Watcher; a seekable
\* file in mode tail or from-start is closed and followed through
\* Watcher(filename, from_start), from_start being true exactly for from-start.
C14_InputDispatch ==
    mpc = "running" =>
        /\ ~args.seekable => source = <<"f">> /\ "f.close" \notin Range(calls)
        /\ (args.seekable /\ args.mode = "one-shot") =>
              source = <<"f">> /\ "f.close" \notin Range(calls)
        /\ (args.seekable /\ args.mode \in {"tail", "from-start"}) =>
              /\ source = <<"Watcher", args.mode = "from-start">>
              /\ "f.close" \in Range(calls)

\* a seekable file is followed from its end in mode tail
C14_Witness ==
    /\ mpc = "running"
    /\ args.seekable
    /\ args.mode = "tail"
    /\ source = <<"Watcher", FALSE>>

\* C15: whenever --min-timestamp or --max-timestamp is given, main()
\* constructs the pipeline (Nginx2ES) with that bound.
C15_BoundsReachPipeline ==
    nginx2es # <<>> =>
        /\ Truthy(args.min_timestamp) =>
              /\ "min_timestamp" \in DOMAIN nginx2es
              /\ nginx2es["min_timestamp"] = args.min_timestamp
        /\ Truthy(args.max_timestamp) =>
              /\ "max_timestamp" \in DOMAIN nginx2es
              /\ nginx2es["max_timestamp"] = args.max_timestamp

\* C16: with --carbon and no --carbon-delay the aggregator's delay is the
\* --carbon-interval; with --carbon-delay it is exactly the value given.
C16_DelayDefaultsToInterval ==
    stat # NoStat =>
        stat.delay = IF args.carbon_delay = NoInt
                     THEN args.carbon_interval
                     ELSE args.carbon_delay

\* C17: with --carbon, startup reaches the construction of the Stat and
\* stat.start(), with the prefix given by --carbon-prefix or else
\* nginx2es.<hostname>; neither case ends in an error.  (The collector is
\* reachable or the output is stdout, so that connect() cannot fail.)
C17_CarbonStartupReachesStart ==
    (/\ mpc \notin {"idle", "start", "carbon", "stat_kwargs", "stat"}
     /\ Truthy(args.carbon)
     /\ (args.stdout \/ carbon_up)) =>
        /\ stat # NoStat
        /\ stat.started
        /\ stat.prefix = IF args.carbon_prefix = None
                         THEN <<"nginx2es", Hostname>>
                         ELSE <<args.carbon_prefix>>
        /\ ~(mpc = "exit" /\ nginx2es = <<>>)

\* C18: after a reconnect attempt has failed, a later window whose delivery
\* starts while the collector is reachable is not logged and dropped without
\* a new connection having been attempted for it.
C18_ReconnectsWhenReachable ==
    [][ (wpc = "send1" /\ mode = "scan" /\ ~eof /\ reachable /\ WorkerStep) =>
            event'.kind # "cantsend" ]_vars

\* C19: no window is lost silently: when a scan's process() pass is over, every
\* window the scan removed from the active set was handed to send_metrics or
\* reported by a log entry, also when the delivery of one of them raised
\* BrokenPipeError.  (The popped windows live only in the local `ready`.)
C19_NoWindowLostSilently ==
    (mode = "scan" /\ wpc \in {"wait", "done", "crashed"}) =>
        passKeys \subseteq handed \cup logged

\* C20: whenever the lock is not held, buffers and last_seen have the same
\* bucket ids and every bucket of buffers holds at least one row.
C20_MapsAgreeOutsideLock ==
    lock = "free" =>
        /\ Keys(buffers) = Keys(last_seen)
        /\ \A i \in DOMAIN buffers : buffers[i][2] # <<>>

\* a scan has removed one bucket and left another, and the lock is free
C20_Witness ==
    /\ lock = "free"
    /\ wpc = "process"
    /\ mode = "scan"
    /\ passKeys # {}
    /\ Keys(buffers) # {}
    /\ Keys(buffers) = Keys(last_seen)

====
